---- MODULE Spec2Model ----
(***************************************************************************)
(* Kanban board (KanbanBoard component) with its localStorage persistence. *)
(* Texts (task contents, input buffers) are sequences of one-character     *)
(* strings, so that trim and the JSON escaping are computed.  A task       *)
(* carries, besides the fields id and content of the source, the field     *)
(* oid: the identity of the JavaScript object, which is what selectedTask  *)
(* refers to and what JSON.stringify does not write.                       *)
(***************************************************************************)
EXTENDS Integers, Sequences, FiniteSets, TLC

VARIABLES
  columns,         \* useState<Column[]>: the Board
  newTaskContent,  \* useState<string>: the add-task input buffer
  isEditing,       \* useState<boolean>
  editTaskId,      \* useState<string | null>: << >> is null, <<id>> a string
  editContent,     \* useState<string>: the editing buffer
  isFullscreenViewOpen, \* useState<boolean>
  selectedTask,    \* useState<Task | null>: << >> is null, <<task>> an object
  storage,         \* localStorage['kanban-columns']: << >> is absent, <<text>> a value
  storage0,        \* the value found under the key when the page was opened
  pending,         \* the setColumns(...) update queued by the load effect
  pc,              \* "mount", "loaded", "rerender", "ready", "crashed"
  now,             \* the value Date.now() gave when it was last read
  nextOid,         \* the next fresh object identity
  outcome          \* how the last handler or effect ended: "none" for one that
                   \* only sets view state, "set" when it called setColumns,
                   \* "noop" when it returned without calling it, "threw"

\* The theme widget (ThemeProvider component).
VARIABLES
  theme,           \* useState<string>("default")
  themeStored,     \* localStorage['theme']: << >> is absent, <<name>> a value
  themeStored0,    \* the value found under the key when the page was opened
  dataTheme,       \* the data-theme attribute of <html>: << >> is absent
  themePc          \* "mount" before the load effect has run, "ready" after it

themeVars == <<theme, themeStored, themeStored0, dataTheme, themePc>>

vars == <<columns, newTaskContent, isEditing, editTaskId, editContent,
          isFullscreenViewOpen, selectedTask, storage, storage0, pending,
          pc, now, nextOid, outcome, themeVars>>

\* Bounds of the model.
MaxTasks == 2   \* task objects allocated over a run (loaded or created)
MaxClock == 2   \* values Date.now() takes over a run

----------------------------------------------------------------------------
\* Sequence helpers (Array.prototype.filter / some / findIndex).

RECURSIVE FilterOut(_, _)
\* tasks.filter((task) => task.id !== taskId)
FilterOut(tasks, taskId) ==
  IF tasks = << >> THEN << >>
  ELSE IF Head(tasks).id = taskId THEN FilterOut(Tail(tasks), taskId)
       ELSE <<Head(tasks)>> \o FilterOut(Tail(tasks), taskId)

\* col.tasks.some((task) => task.id === taskId)
HasTask(tasks, taskId) == \E i \in 1..Len(tasks) : tasks[i].id = taskId

\* tasks.findIndex((task) => task.id === taskId), 1-based; 0 stands for -1
FindTaskIndex(tasks, taskId) ==
  IF HasTask(tasks, taskId)
  THEN CHOOSE i \in 1..Len(tasks) :
         /\ tasks[i].id = taskId
         /\ \A j \in 1..(i - 1) : tasks[j].id # taskId
  ELSE 0

\* columns.findIndex((col) => col.tasks.some(...)), 1-based; 0 stands for -1
FindSourceColumnIndex(cols, taskId) ==
  IF \E c \in 1..Len(cols) : HasTask(cols[c].tasks, taskId)
  THEN CHOOSE c \in 1..Len(cols) :
         /\ HasTask(cols[c].tasks, taskId)
         /\ \A d \in 1..(c - 1) : ~HasTask(cols[d].tasks, taskId)
  ELSE 0

\* columns.find((col) => col.id === columnId), as an index; 0 stands for undefined
FindColumnIndex(cols, columnId) ==
  IF \E c \in 1..Len(cols) : cols[c].id = columnId
  THEN CHOOSE c \in 1..Len(cols) :
         /\ cols[c].id = columnId
         /\ \A d \in 1..(c - 1) : cols[d].id # columnId
  ELSE 0

----------------------------------------------------------------------------
\* Texts.

IsSpace(ch) == ch = " "

RECURSIVE TrimStart(_)
TrimStart(s) ==
  IF s # << >> /\ IsSpace(Head(s)) THEN TrimStart(Tail(s)) ELSE s

RECURSIVE TrimEnd(_)
TrimEnd(s) ==
  IF s # << >> /\ IsSpace(s[Len(s)]) THEN TrimEnd(SubSeq(s, 1, Len(s) - 1)) ELSE s

\* String.prototype.trim
Trim(s) == TrimEnd(TrimStart(s))

\* a JavaScript string used as a condition: the empty string is falsy
Truthy(s) == s # << >>

\* `task-${Date.now()}`
TaskId(t) == "task-" \o ToString(t)

----------------------------------------------------------------------------
\* The Board.

initialColumns ==
  << [id |-> "todo",  title |-> "To Do", tasks |-> << >>],
     [id |-> "doing", title |-> "Doing", tasks |-> << >>],
     [id |-> "done",  title |-> "Done",  tasks |-> << >>] >>

\* A task object: its identity and its two fields.
Task(oid, id, content) == [oid |-> oid, id |-> id, content |-> content]

\* The fields of the tasks, without the identities of the objects.
PlainTasks(tasks) ==
  [i \in 1..Len(tasks) |-> [id |-> tasks[i].id, content |-> tasks[i].content]]

\* Structural value of a Board: columns, tasks and order, without identities.
Plain(cols) ==
  [c \in 1..Len(cols) |->
     [id |-> cols[c].id, title |-> cols[c].title,
      tasks |-> PlainTasks(cols[c].tasks)]]

\* All task objects of the Board, column after column.
RECURSIVE AllTasks(_)
AllTasks(cols) ==
  IF cols = << >> THEN << >> ELSE Head(cols).tasks \o AllTasks(Tail(cols))

TaskCount(cols) == Len(AllTasks(cols))

----------------------------------------------------------------------------
\* JSON.stringify(columns): the text is a sequence of chunks; punctuation and
\* the characters of a content are one chunk each, a key, a column id, a title
\* and a task id are one chunk as a whole.

RECURSIVE Escape(_)
\* inside a string literal a quote and a backslash are written with a backslash
Escape(s) ==
  IF s = << >> THEN << >>
  ELSE (IF Head(s) \in {"\"", "\\"} THEN <<"\\", Head(s)>> ELSE <<Head(s)>>)
       \o Escape(Tail(s))

StrLit(s) == <<"\"">> \o Escape(s) \o <<"\"">>

TaskText(t) ==
  <<"{">> \o StrLit(<<"id">>) \o <<":">> \o StrLit(<<t.id>>) \o <<",">>
          \o StrLit(<<"content">>) \o <<":">> \o StrLit(t.content) \o <<"}">>

RECURSIVE TasksText(_)
TasksText(tasks) ==
  IF tasks = << >> THEN << >>
  ELSE IF Len(tasks) = 1 THEN TaskText(tasks[1])
  ELSE TaskText(tasks[1]) \o <<",">> \o TasksText(Tail(tasks))

ColumnText(col) ==
  <<"{">> \o StrLit(<<"id">>) \o <<":">> \o StrLit(<<col.id>>) \o <<",">>
          \o StrLit(<<"title">>) \o <<":">> \o StrLit(<<col.title>>) \o <<",">>
          \o StrLit(<<"tasks">>) \o <<":">>
          \o <<"[">> \o TasksText(col.tasks) \o <<"]">> \o <<"}">>

RECURSIVE ColumnsText(_)
ColumnsText(cols) ==
  IF cols = << >> THEN << >>
  ELSE IF Len(cols) = 1 THEN ColumnText(cols[1])
  ELSE ColumnText(cols[1]) \o <<",">> \o ColumnsText(Tail(cols))

Stringify(cols) == <<"[">> \o ColumnsText(cols) \o <<"]">>

----------------------------------------------------------------------------
\* JSON.parse(text), for the texts whose keys come in the order Stringify
\* writes them.  A result is [ok, val, pos]: ok is FALSE where JSON.parse
\* throws a SyntaxError, pos is the index after what was read.

ParseFail == [ok |-> FALSE, val |-> << >>, pos |-> 0]

\* x put in front of the values of a result
ParseCons(x, r) == IF r.ok THEN [r EXCEPT !.val = <<x>> \o @] ELSE ParseFail

\* the chunks pat stand in the text from index i on
Match(text, i, pat) ==
  /\ i >= 1
  /\ i + Len(pat) - 1 <= Len(text)
  /\ SubSeq(text, i, i + Len(pat) - 1) = pat

\* "key":"  -- a member's key and the opening quote of its string
KeyText(key) == <<"\"", key, "\"", ":", "\"">>

RECURSIVE ReadChars(_, _)
\* the characters of a string literal from index i up to its closing quote
ReadChars(text, i) ==
  IF i > Len(text) THEN ParseFail
  ELSE IF text[i] = "\"" THEN [ok |-> TRUE, val |-> << >>, pos |-> i + 1]
  ELSE IF text[i] = "\\"
       THEN IF i + 1 > Len(text) THEN ParseFail
            ELSE ParseCons(text[i + 1], ReadChars(text, i + 2))
  ELSE ParseCons(text[i], ReadChars(text, i + 1))

\* } after the content string: the Task read
TaskEnd(text, id, content) ==
  IF content.ok /\ Match(text, content.pos, <<"}">>)
  THEN [ok |-> TRUE,
        val |-> [id |-> id.val[1], content |-> content.val],
        pos |-> content.pos + 1]
  ELSE ParseFail

\* ,"content":"..." after the id string
TaskContent(text, id) ==
  IF id.ok /\ Len(id.val) = 1 /\ Match(text, id.pos, <<",">> \o KeyText("content"))
  THEN TaskEnd(text, id, ReadChars(text, id.pos + 6))
  ELSE ParseFail

\* {"id":"...","content":"..."}
ParseTask(text, i) ==
  IF Match(text, i, <<"{">> \o KeyText("id"))
  THEN TaskContent(text, ReadChars(text, i + 6))
  ELSE ParseFail

RECURSIVE ParseTaskItems(_, _)
RECURSIVE TaskItemsAfter(_, _)
\* task ("," task)* "]"
ParseTaskItems(text, i) == TaskItemsAfter(text, ParseTask(text, i))

TaskItemsAfter(text, t) ==
  IF ~t.ok THEN ParseFail
  ELSE IF Match(text, t.pos, <<"]">>)
       THEN [ok |-> TRUE, val |-> <<t.val>>, pos |-> t.pos + 1]
  ELSE IF Match(text, t.pos, <<",">>)
       THEN ParseCons(t.val, ParseTaskItems(text, t.pos + 1))
  ELSE ParseFail

\* "[" "]"  or  "[" task ("," task)* "]"
ParseTasks(text, i) ==
  IF ~Match(text, i, <<"[">>) THEN ParseFail
  ELSE IF Match(text, i + 1, <<"]">>)
       THEN [ok |-> TRUE, val |-> << >>, pos |-> i + 2]
  ELSE ParseTaskItems(text, i + 1)

\* } after the tasks: the Column read
ColumnEnd(text, id, title, tasks) ==
  IF tasks.ok /\ Match(text, tasks.pos, <<"}">>)
  THEN [ok |-> TRUE,
        val |-> [id |-> id.val[1], title |-> title.val[1], tasks |-> tasks.val],
        pos |-> tasks.pos + 1]
  ELSE ParseFail

\* ,"tasks":[...] after the title string
ColumnTasks(text, id, title) ==
  IF /\ title.ok /\ Len(title.val) = 1
     /\ Match(text, title.pos, <<",", "\"", "tasks", "\"", ":">>)
  THEN ColumnEnd(text, id, title, ParseTasks(text, title.pos + 5))
  ELSE ParseFail

\* ,"title":"..." after the id string
ColumnTitle(text, id) ==
  IF id.ok /\ Len(id.val) = 1 /\ Match(text, id.pos, <<",">> \o KeyText("title"))
  THEN ColumnTasks(text, id, ReadChars(text, id.pos + 6))
  ELSE ParseFail

\* {"id":"...","title":"...","tasks":[...]}
ParseColumn(text, i) ==
  IF Match(text, i, <<"{">> \o KeyText("id"))
  THEN ColumnTitle(text, ReadChars(text, i + 6))
  ELSE ParseFail

RECURSIVE ParseColumnItems(_, _)
RECURSIVE ColumnItemsAfter(_, _)
\* column ("," column)* "]"
ParseColumnItems(text, i) == ColumnItemsAfter(text, ParseColumn(text, i))

ColumnItemsAfter(text, c) ==
  IF ~c.ok THEN ParseFail
  ELSE IF Match(text, c.pos, <<"]">>)
       THEN [ok |-> TRUE, val |-> <<c.val>>, pos |-> c.pos + 1]
  ELSE IF Match(text, c.pos, <<",">>)
       THEN ParseCons(c.val, ParseColumnItems(text, c.pos + 1))
  ELSE ParseFail

\* "[" "]"  or  "[" column ("," column)* "]"
ParseColumns(text) ==
  IF ~Match(text, 1, <<"[">>) THEN ParseFail
  ELSE IF Match(text, 2, <<"]">>) THEN [ok |-> TRUE, val |-> << >>, pos |-> 3]
  ELSE ParseColumnItems(text, 2)

\* the text must end where the value ends
Complete(text, r) == IF r.ok /\ r.pos = Len(text) + 1 THEN r ELSE ParseFail

\* JSON.parse(text): ok is FALSE where it throws; val is the Board read
Parse(text) == Complete(text, ParseColumns(text))

RECURSIVE WithOids(_, _)
\* the objects JSON.parse allocates: every task read is a new object
WithOids(cols, oid) ==
  IF cols = << >> THEN << >>
  ELSE LET col == Head(cols)
       IN <<[col EXCEPT !.tasks =
               [i \in 1..Len(col.tasks) |->
                  Task(oid + i - 1, col.tasks[i].id, col.tasks[i].content)]]>>
          \o WithOids(Tail(cols), oid + Len(col.tasks))

----------------------------------------------------------------------------
\* The handlers, as functions of the state they read.  A result is
\* [cols, set, threw]: the Board after the handler's mutations, whether the
\* handler called setColumns (with a new array), whether it threw.

\* onDrop(e, columnId), with taskId = e.dataTransfer.getData('taskId')
onDrop(cols, taskId, columnId) ==
  LET sourceColumnIndex == FindSourceColumnIndex(cols, taskId)
      destinationColumn == FindColumnIndex(cols, columnId)
  IN IF destinationColumn = 0
     THEN [cols |-> cols, set |-> FALSE, threw |-> FALSE]
     ELSE IF sourceColumnIndex = 0
     \* columns[-1] is undefined: reading .tasks of it is a TypeError
     THEN [cols |-> cols, set |-> FALSE, threw |-> TRUE]
     ELSE LET src     == cols[sourceColumnIndex].tasks
              task    == src[FindTaskIndex(src, taskId)]
              removed == [cols EXCEPT ![sourceColumnIndex].tasks = FilterOut(@, taskId)]
              pushed  == [removed EXCEPT ![destinationColumn].tasks = Append(@, task)]
          IN [cols |-> pushed, set |-> TRUE, threw |-> FALSE]

\* handleCreateTask, were it to store the trimmed text
handleCreateTaskTrimmed(cols, text, t, oid) ==
  IF Truthy(Trim(text))
  THEN [cols |-> [cols EXCEPT ![1].tasks = Append(@, Task(oid, TaskId(t), Trim(text)))],
        set |-> TRUE, threw |-> FALSE]
  ELSE [cols |-> cols, set |-> FALSE, threw |-> FALSE]

\* handleCreateTask, were it to put the new task first (unshift for push)
handleCreateTaskFirst(cols, text, t, oid) ==
  IF Truthy(Trim(text))
  THEN [cols |-> [cols EXCEPT ![1].tasks = <<Task(oid, TaskId(t), text)>> \o @],
        set |-> TRUE, threw |-> FALSE]
  ELSE [cols |-> cols, set |-> FALSE, threw |-> FALSE]

\* handleCreateTask, were its guard newTaskContent, without the trim
handleCreateTaskUntrimmed(cols, text, t, oid) ==
  IF Truthy(text)
  THEN [cols |-> [cols EXCEPT ![1].tasks = Append(@, Task(oid, TaskId(t), text))],
        set |-> TRUE, threw |-> FALSE]
  ELSE [cols |-> cols, set |-> FALSE, threw |-> FALSE]

\* handleCreateTask(), reading newTaskContent, Date.now() and a fresh object
handleCreateTask(cols, text, t, oid) ==
  IF Truthy(Trim(text))
  THEN [cols |-> [cols EXCEPT ![1].tasks = Append(@, Task(oid, TaskId(t), text))],
        set |-> TRUE, threw |-> FALSE]
  ELSE [cols |-> cols, set |-> FALSE, threw |-> FALSE]

\* handleDeleteTask, were it to drop the columns the delete leaves empty
handleDeleteTaskDroppingColumns(cols, taskId) ==
  [cols |-> SelectSeq([c \in 1..Len(cols) |->
                         [cols[c] EXCEPT !.tasks = FilterOut(@, taskId)]],
                      LAMBDA col : col.tasks # << >>),
   set |-> TRUE, threw |-> FALSE]

\* handleDeleteTask(taskId)
handleDeleteTask(cols, taskId) ==
  [cols |-> [c \in 1..Len(cols) |->
               [cols[c] EXCEPT !.tasks = FilterOut(@, taskId)]],
   set |-> TRUE, threw |-> FALSE]

\* the guard of handleSaveEdit: editTaskId && editContent.trim()
SaveEditGuard(id, text) == id # << >> /\ id[1] # "" /\ Truthy(Trim(text))

\* the task object handleSaveEdit writes to in a column: 0 when there is none
EditedIndex(col, id) == IF id = << >> THEN 0 ELSE FindTaskIndex(col.tasks, id[1])

\* handleSaveEdit, were its guard editTaskId && editContent, without the trim
handleSaveEditUntrimmed(cols, id, text) ==
  IF id # << >> /\ id[1] # "" /\ Truthy(text)
  THEN [cols |-> [c \in 1..Len(cols) |->
                    IF EditedIndex(cols[c], id) # 0
                    THEN [cols[c] EXCEPT !.tasks[EditedIndex(cols[c], id)].content = text]
                    ELSE cols[c]],
        set |-> TRUE, threw |-> FALSE]
  ELSE [cols |-> cols, set |-> FALSE, threw |-> FALSE]

\* handleSaveEdit(), reading editTaskId and editContent
handleSaveEdit(cols, id, text) ==
  IF SaveEditGuard(id, text)
  THEN [cols |-> [c \in 1..Len(cols) |->
                    IF EditedIndex(cols[c], id) # 0
                    THEN [cols[c] EXCEPT !.tasks[EditedIndex(cols[c], id)].content = text]
                    ELSE cols[c]],
        set |-> TRUE, threw |-> FALSE]
  ELSE [cols |-> cols, set |-> FALSE, threw |-> FALSE]

\* The save effect: localStorage.setItem('kanban-columns', JSON.stringify(columns))
SaveEffect(cols) == <<Stringify(cols)>>

----------------------------------------------------------------------------
\* What the page can find under the key when it is opened.

\* what the user types into the add-task input and into the edit textarea
InputTexts == { <<" ">>, <<" ", "\"">> }
EditTexts  == { <<" ">>, <<"\\", " ">> }

SavedBoard ==
  [initialColumns EXCEPT ![2].tasks = <<[id |-> TaskId(0), content |-> <<" ", "\"">>]>>]

Truncated(text) == SubSeq(text, 1, Len(text) - 1)

InitStorage ==
  { << >>,                                   \* no value
    <<Stringify(SavedBoard)>>,               \* a Board written by an earlier run
    <<Truncated(Stringify(SavedBoard))>> }   \* a damaged value

DragIds == {""} \cup { TaskId(t) : t \in 0..MaxClock }

Init ==
  /\ columns = initialColumns
  /\ newTaskContent = << >>
  /\ isEditing = FALSE
  /\ editTaskId = << >>
  /\ editContent = << >>
  /\ isFullscreenViewOpen = FALSE
  /\ selectedTask = << >>
  /\ storage \in InitStorage
  /\ storage0 = storage
  /\ pending = << >>
  /\ pc = "mount"
  /\ now = 1
  /\ nextOid = 1
  /\ outcome = "none"
  /\ theme = "default"
  /\ themeStored = << >>
  /\ themeStored0 = << >>
  /\ dataTheme = << >>
  /\ themePc = "mount"

Outcome(r) == IF r.threw THEN "threw" ELSE IF r.set THEN "set" ELSE "noop"

\* Commit, were the save effect to run on mount only (an empty dependency list)
CommitWithoutSave(r) ==
  /\ columns' = r.cols
  /\ storage' = storage
  /\ outcome' = Outcome(r)

\* A handler's result reaches the state: setColumns, the render that follows
\* and the save effect, which runs when columns is a new array.
Commit(r) ==
  /\ columns' = r.cols
  /\ storage' = IF r.set THEN SaveEffect(r.cols) ELSE storage
  /\ outcome' = Outcome(r)

----------------------------------------------------------------------------
\* Startup: the two mount effects in the order they are declared, then the
\* render of the queued setColumns with its save effect.

\* LoadEffect, were it to read the stored value without calling setColumns
LoadEffectWithoutSet ==
  /\ pc = "mount"
  /\ pc' = "loaded"
  /\ outcome' = "noop"
  /\ UNCHANGED <<columns, newTaskContent, isEditing, editTaskId, editContent,
                 isFullscreenViewOpen, selectedTask, storage, storage0, now,
                 pending, nextOid>>
  /\ UNCHANGED themeVars

LoadEffect ==
  /\ pc = "mount"
  /\ IF storage # << >> /\ Truthy(storage[1])
     THEN LET r == Parse(storage[1])
          IN IF r.ok
             THEN /\ pending' = <<WithOids(r.val, nextOid)>>
                  /\ nextOid' = nextOid + TaskCount(r.val)
                  /\ pc' = "loaded"
                  /\ outcome' = "set"
             ELSE \* JSON.parse throws inside the effect: the tree is unmounted
                  /\ pc' = "crashed"
                  /\ outcome' = "threw"
                  /\ UNCHANGED <<pending, nextOid>>
     ELSE /\ pc' = "loaded"
          /\ outcome' = "noop"
          /\ UNCHANGED <<pending, nextOid>>
  /\ UNCHANGED <<columns, newTaskContent, isEditing, editTaskId, editContent,
                 isFullscreenViewOpen, selectedTask, storage, storage0, now>>
  /\ UNCHANGED themeVars

SaveEffectMount ==
  /\ pc = "loaded"
  /\ storage' = SaveEffect(columns)
  /\ pc' = IF pending # << >> THEN "rerender" ELSE "ready"
  /\ outcome' = "none"
  /\ UNCHANGED <<columns, newTaskContent, isEditing, editTaskId, editContent,
                 isFullscreenViewOpen, selectedTask, storage0, pending, now, nextOid>>
  /\ UNCHANGED themeVars

Rerender ==
  /\ pc = "rerender"
  /\ Commit([cols |-> pending[1], set |-> TRUE, threw |-> FALSE])
  /\ pending' = << >>
  /\ pc' = "ready"
  /\ UNCHANGED <<newTaskContent, isEditing, editTaskId, editContent,
                 isFullscreenViewOpen, selectedTask, storage0, now, nextOid>>
  /\ UNCHANGED themeVars

----------------------------------------------------------------------------
\* Gestures, as the pointer reaches them: the detail view, while it is open,
\* covers the columns and the add-task control.

ModalOpen == isFullscreenViewOpen /\ selectedTask # << >>
EditMode  == ModalOpen /\ isEditing /\ editTaskId = <<selectedTask[1].id>>
ViewMode  == ModalOpen /\ ~EditMode

HandleInputChange(v) ==
  /\ pc = "ready"
  /\ ~ModalOpen
  /\ newTaskContent' = v
  /\ outcome' = "none"
  /\ UNCHANGED <<columns, isEditing, editTaskId, editContent,
                 isFullscreenViewOpen, selectedTask, storage, storage0, pending,
                 pc, now, nextOid>>
  /\ UNCHANGED themeVars

\* the Add Task button; dt tells whether Date.now() has advanced since it was
\* last read
CreateTask(dt) ==
  /\ pc = "ready"
  /\ ~ModalOpen
  /\ now + dt <= MaxClock
  /\ Truthy(Trim(newTaskContent)) => nextOid <= MaxTasks
  /\ LET r == handleCreateTask(columns, newTaskContent, now + dt, nextOid)
     IN /\ Commit(r)
        /\ newTaskContent' = IF r.set THEN << >> ELSE newTaskContent
        /\ nextOid' = IF r.set THEN nextOid + 1 ELSE nextOid
        /\ now' = IF r.set THEN now + dt ELSE now
  /\ UNCHANGED <<isEditing, editTaskId, editContent, isFullscreenViewOpen,
                 selectedTask, storage0, pending, pc>>
  /\ UNCHANGED themeVars

\* a drop on a column of whatever was dragged
Drop(taskId, columnId) ==
  /\ pc = "ready"
  /\ ~ModalOpen
  /\ Commit(onDrop(columns, taskId, columnId))
  /\ UNCHANGED <<newTaskContent, isEditing, editTaskId, editContent,
                 isFullscreenViewOpen, selectedTask, storage0, pending, pc, now,
                 nextOid>>
  /\ UNCHANGED themeVars

OpenFullscreenView(c, i) ==
  /\ pc = "ready"
  /\ ~ModalOpen
  /\ selectedTask' = <<columns[c].tasks[i]>>
  /\ isFullscreenViewOpen' = TRUE
  /\ outcome' = "none"
  /\ UNCHANGED <<columns, newTaskContent, isEditing, editTaskId, editContent,
                 storage, storage0, pending, pc, now, nextOid>>
  /\ UNCHANGED themeVars

CloseFullscreenView ==
  /\ pc = "ready"
  /\ ViewMode
  /\ isFullscreenViewOpen' = FALSE
  /\ selectedTask' = << >>
  /\ outcome' = "none"
  /\ UNCHANGED <<columns, newTaskContent, isEditing, editTaskId, editContent,
                 storage, storage0, pending, pc, now, nextOid>>
  /\ UNCHANGED themeVars

EditTask ==
  /\ pc = "ready"
  /\ ViewMode
  /\ isEditing' = TRUE
  /\ editTaskId' = <<selectedTask[1].id>>
  /\ editContent' = selectedTask[1].content
  /\ outcome' = "none"
  /\ UNCHANGED <<columns, newTaskContent, isFullscreenViewOpen, selectedTask,
                 storage, storage0, pending, pc, now, nextOid>>
  /\ UNCHANGED themeVars

\* the objects handleSaveEdit writes to
EditedOids(cols, id) ==
  { cols[c].tasks[EditedIndex(cols[c], id)].oid :
      c \in { d \in 1..Len(cols) : EditedIndex(cols[d], id) # 0 } }

\* the textarea's onChange, were it to write the buffer through to the task
EditChangeLive(v) ==
  /\ pc = "ready"
  /\ EditMode
  /\ editContent' = v
  /\ Commit(handleSaveEdit(columns, editTaskId, v))
  /\ selectedTask' =
       IF Truthy(Trim(v)) /\ selectedTask[1].oid \in EditedOids(columns, editTaskId)
       THEN <<[selectedTask[1] EXCEPT !.content = v]>>
       ELSE selectedTask
  /\ UNCHANGED <<newTaskContent, isEditing, editTaskId, isFullscreenViewOpen,
                 storage0, pending, pc, now, nextOid>>
  /\ UNCHANGED themeVars

EditChange(v) ==
  /\ pc = "ready"
  /\ EditMode
  /\ editContent' = v
  /\ outcome' = "none"
  /\ UNCHANGED <<columns, newTaskContent, isEditing, editTaskId,
                 isFullscreenViewOpen, selectedTask, storage, storage0, pending,
                 pc, now, nextOid>>
  /\ UNCHANGED themeVars

SaveEdit ==
  /\ pc = "ready"
  /\ EditMode
  /\ LET r == handleSaveEdit(columns, editTaskId, editContent)
     IN /\ Commit(r)
        /\ isEditing' = IF r.set THEN FALSE ELSE isEditing
        /\ editTaskId' = IF r.set THEN << >> ELSE editTaskId
        /\ editContent' = IF r.set THEN << >> ELSE editContent
        \* selectedTask is the task object itself: a write to it shows there
        /\ selectedTask' =
             IF r.set /\ selectedTask[1].oid \in EditedOids(columns, editTaskId)
             THEN <<[selectedTask[1] EXCEPT !.content = editContent]>>
             ELSE selectedTask
  /\ UNCHANGED <<newTaskContent, isFullscreenViewOpen, storage0, pending, pc,
                 now, nextOid>>
  /\ UNCHANGED themeVars

CancelEdit ==
  /\ pc = "ready"
  /\ EditMode
  /\ isEditing' = FALSE
  /\ editTaskId' = << >>
  /\ editContent' = << >>
  /\ outcome' = "none"
  /\ UNCHANGED <<columns, newTaskContent, isFullscreenViewOpen, selectedTask,
                 storage, storage0, pending, pc, now, nextOid>>
  /\ UNCHANGED themeVars

\* the Delete button, were it to call handleDeleteTask only
DeleteTaskWithoutClose ==
  /\ pc = "ready"
  /\ ViewMode
  /\ Commit(handleDeleteTask(columns, selectedTask[1].id))
  /\ UNCHANGED <<newTaskContent, isEditing, editTaskId, editContent, storage0,
                 pending, pc, now, nextOid, isFullscreenViewOpen, selectedTask>>
  /\ UNCHANGED themeVars

\* the Delete button: handleDeleteTask(selectedTask.id); closeFullscreenView()
DeleteTask ==
  /\ pc = "ready"
  /\ ViewMode
  /\ Commit(handleDeleteTask(columns, selectedTask[1].id))
  /\ isFullscreenViewOpen' = FALSE
  /\ selectedTask' = << >>
  /\ UNCHANGED <<newTaskContent, isEditing, editTaskId, editContent, storage0,
                 pending, pc, now, nextOid>>
  /\ UNCHANGED themeVars

ColumnIds == { columns[c].id : c \in 1..Len(columns) }

Next ==
  \/ LoadEffect
  \/ SaveEffectMount
  \/ Rerender
  \/ \E v \in InputTexts : HandleInputChange(v)
  \/ \E dt \in {0, 1} : CreateTask(dt)
  \/ \E taskId \in DragIds, columnId \in ColumnIds : Drop(taskId, columnId)
  \/ \E c \in 1..Len(columns) : \E i \in 1..Len(columns[c].tasks) :
       OpenFullscreenView(c, i)
  \/ CloseFullscreenView
  \/ EditTask
  \/ \E v \in EditTexts : EditChange(v)
  \/ SaveEdit
  \/ CancelEdit
  \/ DeleteTask

Spec == Init /\ [][Next]_vars

----------------------------------------------------------------------------
\* Gestures by keyboard.  The overlay of the detail view stops the pointer,
\* not the focus: nothing in the modal traps it, so Tab reaches the controls
\* that stay rendered behind the overlay (the add-task dialog with its input
\* and its Add Task button, the Open buttons of the cards), and typing, Enter
\* or Space acts on them.  A drag needs the pointer.

KeyHandleInputChange(v) ==
  /\ pc = "ready"
  /\ ModalOpen
  /\ newTaskContent' = v
  /\ outcome' = "none"
  /\ UNCHANGED <<columns, isEditing, editTaskId, editContent,
                 isFullscreenViewOpen, selectedTask, storage, storage0, pending,
                 pc, now, nextOid>>
  /\ UNCHANGED themeVars

KeyCreateTask(dt) ==
  /\ pc = "ready"
  /\ ModalOpen
  /\ now + dt <= MaxClock
  /\ Truthy(Trim(newTaskContent)) => nextOid <= MaxTasks
  /\ LET r == handleCreateTask(columns, newTaskContent, now + dt, nextOid)
     IN /\ Commit(r)
        /\ newTaskContent' = IF r.set THEN << >> ELSE newTaskContent
        /\ nextOid' = IF r.set THEN nextOid + 1 ELSE nextOid
        /\ now' = IF r.set THEN now + dt ELSE now
  /\ UNCHANGED <<isEditing, editTaskId, editContent, isFullscreenViewOpen,
                 selectedTask, storage0, pending, pc>>
  /\ UNCHANGED themeVars

KeyOpenFullscreenView(c, i) ==
  /\ pc = "ready"
  /\ ModalOpen
  /\ selectedTask' = <<columns[c].tasks[i]>>
  /\ isFullscreenViewOpen' = TRUE
  /\ outcome' = "none"
  /\ UNCHANGED <<columns, newTaskContent, isEditing, editTaskId, editContent,
                 storage, storage0, pending, pc, now, nextOid>>
  /\ UNCHANGED themeVars

KeyboardNext ==
  \/ Next
  \/ \E v \in InputTexts : KeyHandleInputChange(v)
  \/ \E dt \in {0, 1} : KeyCreateTask(dt)
  \/ \E c \in 1..Len(columns) : \E i \in 1..Len(columns[c].tasks) :
       KeyOpenFullscreenView(c, i)

\* The board under the gestures of pointer and keyboard.
KeyboardSpec == Init /\ [][KeyboardNext]_vars

----------------------------------------------------------------------------
\* The theme widget: its load effect and changeTheme.

boardVars == <<columns, newTaskContent, isEditing, editTaskId, editContent,
               isFullscreenViewOpen, selectedTask, storage, storage0, pending,
               pc, now, nextOid, outcome>>

\* the palette the dropdown offers
Themes ==
  { "default", "cupcake", "retro", "luxury", "sunset", "night", "cyberpunk",
    "valentine", "aqua", "winter", "dracula", "synthwave", "halloween", "coffee" }

\* what the page can find under the key theme: nothing, the empty string, a
\* name of the palette, or a name an earlier version of the palette had
ThemeInitStorage == { << >>, <<"">>, <<"forest">> } \cup { <<name>> : name \in Themes }

\* localStorage.getItem("theme") || "default"
SavedTheme(stored) ==
  IF stored # << >> /\ stored[1] # "" THEN stored[1] ELSE "default"

ThemeInit ==
  /\ columns = initialColumns
  /\ newTaskContent = << >>
  /\ isEditing = FALSE
  /\ editTaskId = << >>
  /\ editContent = << >>
  /\ isFullscreenViewOpen = FALSE
  /\ selectedTask = << >>
  /\ storage = << >>
  /\ storage0 = << >>
  /\ pending = << >>
  /\ pc = "mount"
  /\ now = 1
  /\ nextOid = 1
  /\ outcome = "none"
  /\ theme = "default"
  /\ themeStored \in ThemeInitStorage
  /\ themeStored0 = themeStored
  /\ dataTheme = << >>
  /\ themePc = "mount"

\* the mount effect
ThemeLoad ==
  /\ themePc = "mount"
  /\ theme' = SavedTheme(themeStored)
  /\ dataTheme' = <<SavedTheme(themeStored)>>
  /\ themePc' = "ready"
  /\ UNCHANGED <<themeStored, themeStored0>>
  /\ UNCHANGED boardVars

\* changeTheme, were it not to persist the selection
ChangeThemeWithoutStore(newTheme) ==
  /\ themePc = "ready"
  /\ theme' = newTheme
  /\ dataTheme' = <<newTheme>>
  /\ UNCHANGED <<themeStored, themeStored0, themePc>>
  /\ UNCHANGED boardVars

\* changeTheme(newTheme), from the onChange of a radio input of the dropdown
ChangeTheme(newTheme) ==
  /\ themePc = "ready"
  /\ theme' = newTheme
  /\ themeStored' = <<newTheme>>
  /\ dataTheme' = <<newTheme>>
  /\ UNCHANGED <<themeStored0, themePc>>
  /\ UNCHANGED boardVars

ThemeNext ==
  \/ ThemeLoad
  \/ \E newTheme \in Themes : ChangeTheme(newTheme)

ThemeSpec == ThemeInit /\ [][ThemeNext]_vars

----------------------------------------------------------------------------
\* Properties.

Ids(cols) == { AllTasks(cols)[i].id : i \in 1..Len(AllTasks(cols)) }
Oids(cols) == { AllTasks(cols)[i].oid : i \in 1..Len(AllTasks(cols)) }

UniqueIds(cols) ==
  \A i, j \in 1..Len(AllTasks(cols)) :
    i # j => AllTasks(cols)[i].id # AllTasks(cols)[j].id

UniqueOids(cols) ==
  \A i, j \in 1..Len(AllTasks(cols)) :
    i # j => AllTasks(cols)[i].oid # AllTasks(cols)[j].oid

WithoutOid(tasks, oid) == SelectSeq(tasks, LAMBDA t : t.oid # oid)

SomeDrop == \E taskId \in DragIds, columnId \in ColumnIds : Drop(taskId, columnId)

\* C1: no two tasks present in the Board ever share an id, also when creates
\* follow each other within one reading of the clock.
C1_UniqueIds == pc = "ready" => UniqueIds(columns)

\* C2: every task object on the Board is held exactly once, and a task leaves
\* the Board only through the delete of that very task.
C2_NoDuplicateNoOrphan ==
  [][ /\ UniqueOids(columns')
      /\ \A o \in Oids(columns) \ Oids(columns') :
           DeleteTask /\ selectedTask[1].oid = o ]_vars

\* C3: a move leaves the number of tasks on the Board as it was.
C3_MoveKeepsCount ==
  [][ SomeDrop => TaskCount(columns') = TaskCount(columns) ]_vars

\* The Board after the task object moved is taken out of its column and put
\* last in column dst, every other task staying where it is.
Moved(cols, moved, dst) ==
  [c \in 1..Len(cols) |->
     [cols[c] EXCEPT !.tasks =
        IF c = dst THEN Append(WithoutOid(@, moved.oid), moved)
        ELSE WithoutOid(@, moved.oid)]]

\* C4: a move of a task that is on the Board takes it out of its source column
\* and makes it the last task of the destination column (of its own column,
\* when that is the destination), every other task keeping its column and the
\* order among the others.
C4_MoveAppendsToDestination ==
  [][ \A taskId \in DragIds, columnId \in ColumnIds :
        (Drop(taskId, columnId) /\ taskId \in Ids(columns)) =>
          LET src   == columns[FindSourceColumnIndex(columns, taskId)].tasks
              moved == src[FindTaskIndex(src, taskId)]
          IN columns' = Moved(columns, moved, FindColumnIndex(columns, columnId))
    ]_vars

\* C5: a drop whose dragged id is the id of no task on the Board completes
\* without an error and changes neither the Board nor the stored value.
C5_UnknownIdDropIsNoOp ==
  [][ \A taskId \in DragIds, columnId \in ColumnIds :
        (Drop(taskId, columnId) /\ taskId \notin Ids(columns)) =>
          /\ outcome' # "threw"
          /\ columns' = columns
          /\ storage' = storage ]_vars

\* the stored value decodes, and to this Board
Decodes(value, board) ==
  /\ value # << >>
  /\ Parse(value[1]) = [ok |-> TRUE, val |-> board, pos |-> Len(value[1]) + 1]

WellFormed(value) == value # << >> /\ Parse(value[1]).ok
Malformed(value)  == value # << >> /\ ~Parse(value[1]).ok

\* C6: once a handler and its save effect have run, the value stored under
\* kanban-columns decodes to the Board in memory: same columns, same tasks,
\* same order.
C6_StoredValueDecodesToBoard == pc = "ready" => Decodes(storage, Plain(columns))

\* a Board whose last column holds an edited task, stored as it is
C6_Witness ==
  /\ pc = "ready"
  /\ \E i \in 1..Len(columns[3].tasks) : columns[3].tasks[i].content = <<"\\", " ">>
  /\ Decodes(storage, Plain(columns))

\* C7: when startup completes, the Board is the decoding of the well-formed
\* value found under the key and the stored value decodes to that Board again;
\* with no value under the key the Board is the three empty columns.
C7_StartupLoadsStoredBoard ==
  [][ (pc # "ready" /\ pc' = "ready") =>
        /\ WellFormed(storage0) =>
             /\ Plain(columns') = Parse(storage0[1]).val
             /\ Decodes(storage', Parse(storage0[1]).val)
        /\ storage0 = << >> => columns' = initialColumns ]_vars

\* startup has completed on the Board an earlier run had stored
C7_Witness ==
  /\ pc = "ready"
  /\ storage0 = <<Stringify(SavedBoard)>>
  /\ Plain(columns) = SavedBoard
  /\ storage = storage0
  /\ nextOid = 2

\* C8: with a malformed value under the key, the load raises no error and the
\* Board is the three empty columns.
C8_MalformedValueFallsBack ==
  Malformed(storage0) =>
    /\ pc # "crashed"
    /\ outcome # "threw"
    /\ pc = "loaded" => (pending = << >> /\ columns = initialColumns)

\* the task create has just appended
Created(cols) == cols[1].tasks[Len(cols[1].tasks)]

\* C9 as stated: create stores the trimmed input, save-edit the trimmed buffer.
C9_StoresTrimmedText ==
  [][ /\ \A dt \in {0, 1} :
           (CreateTask(dt) /\ Truthy(Trim(newTaskContent))) =>
             Created(columns').content = Trim(newTaskContent)
      /\ (SaveEdit /\ SaveEditGuard(editTaskId, editContent)) =>
           \A c \in 1..Len(columns) :
             EditedIndex(columns[c], editTaskId) # 0 =>
               columns'[c].tasks[EditedIndex(columns[c], editTaskId)].content
                 = Trim(editContent) ]_vars

\* C9 as amended: create stores the input as typed and save-edit the buffer as
\* typed, leading and trailing whitespace included; the trim only decides
\* whether the text is blank.
C9_StoresTextAsTyped ==
  [][ /\ \A dt \in {0, 1} :
           (CreateTask(dt) /\ Truthy(Trim(newTaskContent))) =>
             /\ TaskCount(columns') = TaskCount(columns) + 1
             /\ Created(columns').content = newTaskContent
      /\ (SaveEdit /\ SaveEditGuard(editTaskId, editContent)) =>
           /\ editTaskId[1] \in Ids(columns)
           /\ \A c \in 1..Len(columns) :
                EditedIndex(columns[c], editTaskId) # 0 =>
                  columns'[c].tasks[EditedIndex(columns[c], editTaskId)].content
                    = editContent ]_vars

\* on a Board that started empty, a task created from an input with a leading
\* space and a task edited to a buffer with a trailing space
C9_Witness ==
  /\ pc = "ready"
  /\ storage0 = << >>
  /\ \E i, j \in 1..Len(AllTasks(columns)) :
       /\ AllTasks(columns)[i].content = <<" ", "\"">>
       /\ AllTasks(columns)[j].content = <<"\\", " ">>

BlankTexts == { << >>, <<" ">> }

\* C10: create with an empty or whitespace-only input, and save-edit with an
\* empty or whitespace-only buffer or with no task id being edited, change
\* neither the Board nor the stored value.
C10_BlankInputIsNoOp ==
  [][ /\ \A dt \in {0, 1} :
           (CreateTask(dt) /\ newTaskContent \in BlankTexts) =>
             UNCHANGED <<columns, storage>>
      /\ (SaveEdit /\ editContent \in BlankTexts) => UNCHANGED <<columns, storage>>
      /\ \A text \in BlankTexts \cup EditTexts :
           handleSaveEdit(columns, << >>, text)
             = [cols |-> columns, set |-> FALSE, threw |-> FALSE] ]_vars

\* Save has been pressed on a whitespace-only buffer
C10_Witness ==
  /\ pc = "ready"
  /\ EditMode
  /\ editContent = <<" ">>
  /\ outcome = "noop"

\* C11: a create with a non-blank input adds exactly one task, a new one, as
\* the last task of the first column, which is todo; the tasks todo had keep
\* their order, the other columns are as they were, and the input buffer is
\* empty afterwards.
C11_CreateAppendsToTodo ==
  [][ \A dt \in {0, 1} :
        (CreateTask(dt) /\ Truthy(Trim(newTaskContent))) =>
          /\ columns[1].id = "todo"
          /\ columns' = [columns EXCEPT ![1].tasks = Append(@, Created(columns'))]
          /\ Created(columns').oid \notin Oids(columns)
          /\ newTaskContent' = << >> ]_vars

\* a second task has just been created behind the first one
C11_Witness ==
  /\ pc = "ready"
  /\ storage0 = << >>
  /\ outcome = "set"
  /\ Len(columns[1].tasks) = 2
  /\ columns[1].tasks[1].oid = 1
  /\ columns[1].tasks[2].oid = 2
  /\ newTaskContent = << >>

\* The Board without the task object oid, every other task staying where it is.
Without(cols, oid) ==
  [c \in 1..Len(cols) |-> [cols[c] EXCEPT !.tasks = WithoutOid(@, oid)]]

\* C12: the delete of the task shown removes that task from the column that
\* holds it and leaves every other task in its column and in its order; a
\* delete with an id that is on no task leaves the Board as it is; a second
\* delete with the same id changes nothing more.
C12_DeleteRemovesThatTaskOnly ==
  [][ /\ DeleteTask => columns' = Without(columns, selectedTask[1].oid)
      /\ \A taskId \in DragIds :
           /\ taskId \notin Ids(columns) =>
                handleDeleteTask(columns, taskId).cols = columns
           /\ handleDeleteTask(handleDeleteTask(columns, taskId).cols, taskId).cols
                = handleDeleteTask(columns, taskId).cols ]_vars

\* The Board with the content of the task object oid replaced, every task
\* keeping its id, its column and its place.
WithContent(cols, oid, text) ==
  [c \in 1..Len(cols) |->
     [cols[c] EXCEPT !.tasks =
        [i \in 1..Len(@) |->
           IF @[i].oid = oid THEN [@[i] EXCEPT !.content = text] ELSE @[i]]]]

\* C13: a save-edit with a non-blank buffer changes the content of the task
\* being edited, the one shown, and nothing else: that task keeps its id, its
\* column and its place, every other task and the number of tasks are as they
\* were; afterwards nothing is being edited and the edit buffer is empty.
C13_SaveEditChangesThatTaskOnly ==
  [][ (SaveEdit /\ SaveEditGuard(editTaskId, editContent)) =>
        /\ columns' = WithContent(columns, selectedTask[1].oid, editContent)
        /\ TaskCount(columns') = TaskCount(columns)
        /\ ~isEditing'
        /\ editTaskId' = << >>
        /\ editContent' = << >> ]_vars

\* the task object is on the Board, with the content the Board has for it
OnBoard(task, cols) == \E i \in 1..Len(AllTasks(cols)) : AllTasks(cols)[i] = task

\* C14: the delete of the task shown in the detail view closes the view (flag
\* false, no selected task); and whenever the detail view is open, the
\* selected task is a task of the Board.
C14_DeleteClosesDetailView ==
  [][ /\ DeleteTask => (~isFullscreenViewOpen' /\ selectedTask' = << >>)
      /\ ModalOpen' => OnBoard(selectedTask'[1], columns') ]_vars

\* the only task of the Board has been deleted from its detail view
C14_Witness ==
  /\ pc = "ready"
  /\ storage0 = << >>
  /\ nextOid = 2
  /\ TaskCount(columns) = 0
  /\ outcome = "set"
  /\ ~isFullscreenViewOpen
  /\ selectedTask = << >>

\* The state of the detail view, as the modal renders it.
DetailView == IF ~ModalOpen THEN "Closed" ELSE IF EditMode THEN "Editing" ELSE "Viewing"

\* openFullscreenView is called, by a click or by a key
SomeOpen ==
  \E c \in 1..Len(columns) : \E i \in 1..Len(columns[c].tasks) :
    OpenFullscreenView(c, i) \/ KeyOpenFullscreenView(c, i)

\* the detail view goes from state a to state b
Goes(a, b) == DetailView = a /\ DetailView' = b

\* the detail view shows the same task object before and after
SameTask == selectedTask'[1].oid = selectedTask[1].oid

\* C15: the detail view follows the state machine Closed, Viewing, Editing:
\* open takes Closed to Viewing, begin-edit Viewing to Editing, every save and
\* every cancel Editing to Viewing of the same task, close and delete Viewing
\* to Closed; the view changes its state or its task in no other way.
C15_DetailViewStateMachine ==
  [][ /\ SomeOpen => Goes("Closed", "Viewing")
      /\ EditTask => (Goes("Viewing", "Editing") /\ SameTask)
      /\ SaveEdit => (Goes("Editing", "Viewing") /\ SameTask)
      /\ CancelEdit => (Goes("Editing", "Viewing") /\ SameTask)
      /\ CloseFullscreenView => Goes("Viewing", "Closed")
      /\ DeleteTask => Goes("Viewing", "Closed")
      /\ (DetailView' # DetailView \/ (ModalOpen /\ ModalOpen' /\ ~SameTask)) =>
           \/ SomeOpen
           \/ EditTask
           \/ SaveEdit
           \/ CancelEdit
           \/ CloseFullscreenView
           \/ DeleteTask ]_vars

SomeCreate == \E dt \in {0, 1} : CreateTask(dt) \/ KeyCreateTask(dt)

\* a gesture that begins or cancels an edit, changes one of the two buffers,
\* or opens or closes the detail view
ViewGesture ==
  \/ EditTask
  \/ CancelEdit
  \/ \E v \in EditTexts : EditChange(v)
  \/ \E v \in InputTexts : HandleInputChange(v) \/ KeyHandleInputChange(v)
  \/ SomeOpen
  \/ CloseFullscreenView

\* C16: begin-edit, cancel-edit, a change of the edit buffer or of the input
\* buffer, open-detail and close-detail change neither the Board nor the value
\* stored under kanban-columns; the Board changes only through create, move,
\* save-edit, delete and the startup load.
C16_ViewGesturesKeepBoard ==
  [][ /\ ViewGesture => UNCHANGED <<columns, storage>>
      /\ columns' # columns =>
           (SomeCreate \/ SomeDrop \/ SaveEdit \/ DeleteTask \/ Rerender) ]_vars

\* on the loaded Board: the input buffer typed into, the detail view opened,
\* an edit begun and its buffer changed, and Board and stored value as loaded
C16_Witness ==
  /\ pc = "ready"
  /\ newTaskContent = <<" ", "\"">>
  /\ DetailView = "Editing"
  /\ editContent = <<"\\", " ">>
  /\ Plain(columns) = SavedBoard
  /\ storage = <<Stringify(SavedBoard)>>

\* the ids and titles of the columns, in their order
Headings(cols) == [c \in 1..Len(cols) |-> [id |-> cols[c].id, title |-> cols[c].title]]

\* C17: from the default Board or from a well-formed stored Board, the Board
\* always consists of the three columns todo, doing, done, in that order and
\* with their titles To Do, Doing, Done.
C17_ThreeFixedColumns ==
  Headings(columns) =
    << [id |-> "todo",  title |-> "To Do"],
       [id |-> "doing", title |-> "Doing"],
       [id |-> "done",  title |-> "Done"] >>

\* the loaded Board after a create, a move to done, an edit and a delete
C17_Witness ==
  /\ pc = "ready"
  /\ storage0 = <<Stringify(SavedBoard)>>
  /\ nextOid = 3
  /\ TaskCount(columns) = 1
  /\ Len(columns[3].tasks) = 1
  /\ columns[3].tasks[1].content = <<"\\", " ">>
  /\ Headings(columns) = Headings(initialColumns)

\* C18: the load step makes the theme variable and the data-theme attribute
\* the name stored under theme, or default when there is none; a selection
\* makes the variable, the stored value and the attribute the selected name;
\* so after the load and any selections the variable and the attribute are the
\* name last loaded or selected, and so is the stored value once a selection
\* has been made.
C18_ThemeFollowsLastChoice ==
  [][ /\ ThemeLoad =>
           /\ theme' = (IF themeStored \in { << >>, <<"">> } THEN "default"
                        ELSE themeStored[1])
           /\ dataTheme' = <<theme'>>
      /\ \A name \in Themes :
           ChangeTheme(name) =>
             (theme' = name /\ themeStored' = <<name>> /\ dataTheme' = <<name>>)
      /\ themePc' = "ready" =>
           /\ dataTheme' = <<theme'>>
           /\ \/ themeStored' = <<theme'>>
              \/ themeStored' = themeStored0' /\ themeStored0' \in { << >>, <<"">> }
    ]_vars

\* cupcake was loaded, then dracula selected
C18_Witness ==
  /\ themePc = "ready"
  /\ themeStored0 = <<"cupcake">>
  /\ theme = "dracula"
  /\ themeStored = <<"dracula">>
  /\ dataTheme = <<"dracula">>

\* C19: every task of the Board has a content that is neither empty nor
\* whitespace-only, the Board having started from the default or from a stored
\* Board of which this is true.
C19_ContentNeverBlank ==
  \A i \in 1..Len(AllTasks(columns)) : Truthy(Trim(AllTasks(columns)[i].content))

\* next to the loaded task, whose content was saved from the edit buffer,
\* stands a created one, and a create with a whitespace-only input was refused
C19_Witness ==
  /\ pc = "ready"
  /\ storage0 = <<Stringify(SavedBoard)>>
  /\ TaskCount(columns) = 2
  /\ \E c \in 1..Len(columns) : \E i \in 1..Len(columns[c].tasks) :
       columns[c].tasks[i].oid = 1 /\ columns[c].tasks[i].content = <<"\\", " ">>
  /\ newTaskContent = <<" ">>
  /\ outcome = "noop"

\* C20: during a startup that found a well-formed Board under the key, the
\* stored value is at no step replaced by another Board: until startup has
\* completed it decodes to the Board that was found.
C20_StartupKeepsStoredBoard ==
  [][ (WellFormed(storage0) /\ pc # "ready") =>
        Decodes(storage', Parse(storage0[1]).val) ]_vars

\* C21: under every sequence of gestures the view flags agree: the detail view
\* flag is true exactly when a task is selected, the editing flag exactly when
\* an edit target id is set, and while the editing flag is true the detail
\* view is open on the task whose id is the edit target.
C21_ViewFlagsConsistent ==
  /\ isFullscreenViewOpen <=> selectedTask # << >>
  /\ isEditing <=> editTaskId # << >>
  /\ isEditing =>
       /\ isFullscreenViewOpen
       /\ selectedTask # << >>
       /\ editTaskId = <<selectedTask[1].id>>

\* the content the Board has for the id of the selected task is the content
\* the detail view shows
ShowsBoardContent(sel, cols) ==
  /\ sel[1].id \in Ids(cols)
  /\ \A i \in 1..Len(AllTasks(cols)) :
       AllTasks(cols)[i].id = sel[1].id => AllTasks(cols)[i].content = sel[1].content

\* C22: whenever the detail view is open, the content it shows for the
\* selected task is the content of the task with that id on the Board; after
\* a save-edit with a non-blank buffer the view shows the content just saved.
C22_DetailShowsBoardContent ==
  [][ /\ ModalOpen' => ShowsBoardContent(selectedTask', columns')
      /\ (SaveEdit /\ SaveEditGuard(editTaskId, editContent)) =>
           selectedTask'[1].content = editContent ]_vars

====
